---- MODULE Spec2Model ----
(***************************************************************************)
(* s3-copy-dir: copy every object under a bucket/prefix from a source      *)
(* object store to a destination store (main.go).                          *)
(*                                                                         *)
(* The model covers main() from the progress branch (line 192) to the      *)
(* return after "copy completed" (line 218), countDirObjects with its      *)
(* periodic-report goroutine, and one copyObj goroutine per listed entry.  *)
(* Every statement of copyObj that touches shared state or a storage       *)
(* service is one step, so that all interleavings of the workers, of the   *)
(* dispatch loop and of the drain loop are explored.                       *)
(*                                                                         *)
(* Object keys are the numbers 1..MaxK; 0 is the empty key "", which is    *)
(* what the Key field of a zero ObjectInfo holds (a failed StatObject, or  *)
(* the entry by which ListObjects reports an error before it closes its    *)
(* channel).                                                               *)
(***************************************************************************)
EXTENDS Integers, Sequences, FiniteSets

\* Largest number of entries a listing of the source prefix yields.
MaxK == 2
\* Largest configured options.Concurrency.
MaxC == 2

Keys == 1..MaxK
\* One copyObj goroutine per entry of the listing (the entry that carries a
\* listing error included).
Workers == 1..MaxK

VARIABLES
    concurrency,   \* c.options.Concurrency
    showProgress,  \* *showProgress
    listing,       \* the entries src.ListObjects yields, in order (0: error entry)
    dest,          \* keys present in the destination bucket
    dest0,         \* keys present in the destination when the run started
    run,           \* 1 for the first execution of main, 2 for a second one
    mainpc,        \* position of main
    idx,           \* number of entries main has received from objCh
    workersCh,     \* len(workersCh): tokens buffered in the channel
    ocTotal,       \* oc.Total
    ocCurrent,     \* oc.Current
    mutex,         \* oc.Mutex: 0 when unlocked, else the worker holding it
    wpc,           \* position of each copyObj goroutine
    srcObj,        \* copyObj: TRUE when GetObject returned an object
    statRes,       \* copyObj: what the destination answered to StatObject
    statKey,       \* copyObj: dstObjStat.Key
    err,           \* copyObj: TRUE when PutObject returned an error
    outcome,       \* copyObj: which of the three log lines was printed
    logged,        \* the "[current/total]" prefixes printed so far, in order
    count,         \* countDirObjects: count
    cidx,          \* countDirObjects: entries received from its objCh
    rpc,           \* position of the periodic-report goroutine
    stopCh         \* countDirObjects: state of stopCh

vars == <<concurrency, showProgress, listing, dest, dest0, run,
          mainpc, idx, workersCh, ocTotal, ocCurrent, mutex, wpc, srcObj,
          statRes, statKey, err, outcome, logged, count, cidx, rpc, stopCh>>

config == <<concurrency, showProgress, listing>>
counting == <<count, cidx, rpc, stopCh>>
locals == <<srcObj, statRes, statKey, err, outcome>>

----------------------------------------------------------------------------
(* The storage services (minio client calls made by the program).          *)

\* The entries ListObjects yields for n objects; when the listing fails, the
\* last entry is an ObjectInfo with Err set and an empty Key, after which
\* the channel is closed.
ListObjects(n, fails) ==
    [i \in 1..n |-> i] \o (IF fails THEN <<0>> ELSE <<>>)

\* src.GetObject: an object (TRUE) or nil with an error (FALSE).  The call
\* checks the names and returns a reader that sends its request on the first
\* read: it fails for the empty key only, and a failure to read the source
\* shows as the error of the PutObject that streams from the reader.
GetObjectResults(key) ==
    IF key = 0 THEN {FALSE} ELSE {TRUE}

\* dst.StatObject: "present" (ObjectInfo of the key), "notfound" or "error"
\* (both return a zero ObjectInfo and an error).
StatObjectResults(dst, key) ==
    IF key = 0 THEN {"error"}
    ELSE IF key \in dst THEN {"present", "error"}
    ELSE {"notfound", "error"}

\* The Key field of the ObjectInfo StatObject returned.
StatObjectKeyOfRequest(res, key) == key
StatObjectKey(res, key) ==
    IF res = "present" THEN key ELSE 0

\* dst.PutObject: TRUE when it returns an error.  Nothing can be streamed
\* from a nil source object or to an empty key.
PutObjectErrors(key, src) ==
    IF key = 0 \/ ~src THEN {TRUE} ELSE BOOLEAN

\* The source object GetObject returned is open: copyObj never calls
\* srcObj.Close(), and PutObject only reads from the io.Reader it is given.
StreamOpen(src) == src

----------------------------------------------------------------------------
(* Helpers of the program.                                                 *)

\* workersCh <- struct{}{} can proceed: the buffer has room.  (With capacity
\* 0 a send needs a receiver that is already waiting; the only receivers are
\* the deferred receives of workers started after a send, so there is none.)
CanSendLeak(len, cap) == len <= cap
CanSendUnlimited(len, cap) == len < cap \/ cap = 0
CanSend(len, cap) == len < cap

\* <-ch in copyObj's deferred function.
RecvLost(len) == len
RecvTwice(len) == len - 2
Recv(len) == len - 1

\* objCounter.increment
incrementLost(cur) == cur
incrementTwice(cur) == cur + 2
increment(cur) == cur + 1

\* objCounter.getCurrent
getCurrentStale(cur) == cur - 1
getCurrent(cur) == cur

\* logErr: logs, and lets the caller continue (TRUE) whatever err is.
logErrFatal(e) == ~e
logErr(e) == TRUE

\* Which log line copyObj prints (lines 153-162).
OutcomeNoCheck(key, e) ==
    IF e THEN "Failed" ELSE "Copied"
OutcomeInverted(key, e) ==
    IF key = 0 THEN "Skipped"
    ELSE IF e THEN "Failed" ELSE "Copied"
Outcome(key, e) ==
    IF key # 0 THEN "Skipped"
    ELSE IF e THEN "Failed" ELSE "Copied"

\* The drain loop's test, len(workersCh) > 0.
PoolBusyNever(len) == FALSE
PoolBusy(len) == len > 0

NoWorker == [w \in Workers |-> "idle"]
NoBool == [w \in Workers |-> FALSE]
NoStat == [w \in Workers |-> "none"]
NoKey == [w \in Workers |-> 0]

----------------------------------------------------------------------------
Init ==
    /\ concurrency \in 0..MaxC
    /\ showProgress \in BOOLEAN
    /\ \E n \in 0..MaxK, fails \in BOOLEAN :
         /\ fails => n < MaxK
         /\ listing = ListObjects(n, fails)
    /\ dest \in SUBSET Keys
    /\ dest0 = dest
    /\ run = 1
    /\ mainpc = "start"
    /\ idx = 0
    /\ workersCh = 0
    /\ ocTotal = 0
    /\ ocCurrent = 0
    /\ mutex = 0
    /\ wpc = NoWorker
    /\ srcObj = NoBool
    /\ statRes = NoStat
    /\ statKey = NoKey
    /\ err = NoBool
    /\ outcome = NoStat
    /\ logged = <<>>
    /\ count = 0
    /\ cidx = 0
    /\ rpc = "none"
    /\ stopCh = "none"

----------------------------------------------------------------------------
(* main                                                                    *)

\* Once main has returned (or the process was ended by a fatal error) the
\* process is gone: no goroutine takes a step.
Running == mainpc \notin {"done", "fatal"}

\* MainStart, were the count run whatever the progress flag says.
MainStartAlwaysCount ==
    /\ mainpc = "start"
    /\ mainpc' = "count"
    /\ rpc' = "select"
    /\ stopCh' = "open"
    /\ UNCHANGED <<config, dest, dest0, run, idx, workersCh, ocTotal,
                   ocCurrent, mutex, wpc, locals, logged, count, cidx>>

\* Lines 193-198: oc := &objCounter{}; the progress branch.  With progress,
\* countDirObjects starts: it makes stopCh, starts the report goroutine and
\* opens its listing.
MainStart ==
    /\ mainpc = "start"
    /\ IF showProgress
       THEN /\ mainpc' = "count"
            /\ rpc' = "select"
            /\ stopCh' = "open"
            /\ UNCHANGED ocTotal
       ELSE /\ mainpc' = "range"
            /\ ocTotal' = -1
            /\ UNCHANGED <<rpc, stopCh>>
    /\ UNCHANGED <<config, dest, dest0, run, idx, workersCh,
                   ocCurrent, mutex, wpc, locals, logged, count, cidx>>

\* Lines 120-122: for _ = range objCh { count++ }.
CountNext ==
    /\ mainpc = "count"
    /\ IF cidx < Len(listing)
       THEN /\ cidx' = cidx + 1
            /\ count' = count + 1
            /\ UNCHANGED mainpc
       ELSE /\ mainpc' = "countStop"
            /\ UNCHANGED <<cidx, count>>
    /\ UNCHANGED <<config, dest, dest0, run, idx, workersCh,
                   ocTotal, ocCurrent, mutex, wpc, locals, logged, rpc, stopCh>>

\* CountStop, were the report goroutine to go on looping after its receive.
CountStopNoReturn ==
    /\ mainpc = "countStop"
    /\ rpc = "select"
    /\ stopCh = "open"
    /\ mainpc' = "countRet"
    /\ rpc' = "sleep"
    /\ UNCHANGED <<config, dest, dest0, run, idx, workersCh,
                   ocTotal, ocCurrent, mutex, wpc, locals, logged, count,
                   cidx, stopCh>>

\* Line 123 with line 109: stopCh is unbuffered, so the send completes
\* together with the report goroutine's receive.
CountStop ==
    /\ mainpc = "countStop"
    /\ rpc = "select"
    /\ stopCh = "open"
    /\ mainpc' = "countRet"
    /\ rpc' = "close"
    /\ UNCHANGED <<config, dest, dest0, run, idx, workersCh,
                   ocTotal, ocCurrent, mutex, wpc, locals, logged, count,
                   cidx, stopCh>>

\* Lines 125-126 and 195: log the total, return it, oc.Total = count.
CountReturn ==
    /\ mainpc = "countRet"
    /\ ocTotal' = count
    /\ mainpc' = "range"
    /\ UNCHANGED <<config, dest, dest0, run, idx, workersCh,
                   ocCurrent, mutex, wpc, locals, logged, counting>>

\* Lines 112-114: no sender is waiting on stopCh, the select takes default.
ReporterDefault ==
    /\ Running
    /\ rpc = "select"
    /\ mainpc # "countStop"
    /\ rpc' = "sleep"
    /\ UNCHANGED <<config, dest, dest0, run, mainpc, idx,
                   workersCh, ocTotal, ocCurrent, mutex, wpc, locals, logged,
                   count, cidx, stopCh>>

\* Line 114: time.Sleep returns, next iteration of the for loop.
ReporterWake ==
    /\ Running
    /\ rpc = "sleep"
    /\ rpc' = "select"
    /\ UNCHANGED <<config, dest, dest0, run, mainpc, idx,
                   workersCh, ocTotal, ocCurrent, mutex, wpc, locals, logged,
                   count, cidx, stopCh>>

\* Lines 110-111: close(stopCh); return.
ReporterClose ==
    /\ Running
    /\ rpc = "close"
    /\ stopCh' = "closed"
    /\ rpc' = "done"
    /\ UNCHANGED <<config, dest, dest0, run, mainpc, idx,
                   workersCh, ocTotal, ocCurrent, mutex, wpc, locals, logged,
                   count, cidx>>

\* Line 207: for obj := range objCh.  The entry's Err field is not looked at.
Range ==
    /\ mainpc = "range"
    /\ IF idx < Len(listing)
       THEN /\ idx' = idx + 1
            /\ mainpc' = "acquire"
       ELSE /\ mainpc' = "drain"
            /\ UNCHANGED idx
    /\ UNCHANGED <<config, dest, dest0, run, workersCh, ocTotal,
                   ocCurrent, mutex, wpc, locals, logged, counting>>

\* Line 208: workersCh <- struct{}{}.
Acquire ==
    /\ mainpc = "acquire"
    /\ CanSend(workersCh, concurrency)
    /\ workersCh' = workersCh + 1
    /\ mainpc' = "go"
    /\ UNCHANGED <<config, dest, dest0, run, idx, ocTotal,
                   ocCurrent, mutex, wpc, locals, logged, counting>>

\* Go, were every goroutine started for the first entry of the listing.
GoFirst ==
    /\ mainpc = "go"
    /\ wpc' = [wpc EXCEPT ![1] = "get"]
    /\ mainpc' = "range"
    /\ UNCHANGED <<config, dest, dest0, run, idx, workersCh,
                   ocTotal, ocCurrent, mutex, locals, logged, counting>>

\* Line 209: go copyObj(..., obj.Key, workersCh, oc).
Go ==
    /\ mainpc = "go"
    /\ wpc' = [wpc EXCEPT ![idx] = "get"]
    /\ mainpc' = "range"
    /\ UNCHANGED <<config, dest, dest0, run, idx, workersCh,
                   ocTotal, ocCurrent, mutex, locals, logged, counting>>

\* Lines 213-219: one turn of the drain loop.
DrainPoll ==
    /\ mainpc = "drain"
    /\ mainpc' = IF PoolBusy(workersCh) THEN "sleep" ELSE "done"
    /\ UNCHANGED <<config, dest, dest0, run, idx, workersCh,
                   ocTotal, ocCurrent, mutex, wpc, locals, logged, counting>>

\* Line 215: time.Sleep returns.
DrainWake ==
    /\ mainpc = "sleep"
    /\ mainpc' = "drain"
    /\ UNCHANGED <<config, dest, dest0, run, idx, workersCh,
                   ocTotal, ocCurrent, mutex, wpc, locals, logged, counting>>

----------------------------------------------------------------------------
(* copyObj, the goroutine of the entry at position w of the listing        *)

\* Lines 133-134.
GetObject(w) ==
    /\ Running
    /\ wpc[w] = "get"
    /\ \E o \in GetObjectResults(listing[w]) :
         /\ srcObj' = [srcObj EXCEPT ![w] = o]
         /\ IF logErr(~o)
            THEN /\ wpc' = [wpc EXCEPT ![w] = "stat"]
                 /\ UNCHANGED mainpc
            ELSE /\ mainpc' = "fatal"
                 /\ UNCHANGED wpc
    /\ UNCHANGED <<config, dest, dest0, run, idx, workersCh,
                   ocTotal, ocCurrent, mutex, statRes, statKey, err, outcome,
                   logged, counting>>

\* Line 137: the error StatObject returns is discarded.
StatObject(w) ==
    /\ Running
    /\ wpc[w] = "stat"
    /\ \E r \in StatObjectResults(dest, listing[w]) :
         /\ statRes' = [statRes EXCEPT ![w] = r]
         /\ statKey' = [statKey EXCEPT ![w] = StatObjectKey(r, listing[w])]
    /\ wpc' = [wpc EXCEPT ![w] = "put"]
    /\ UNCHANGED <<config, dest, dest0, run, mainpc, idx,
                   workersCh, ocTotal, ocCurrent, mutex, srcObj, err, outcome,
                   logged, counting>>

\* Line 140: PutObject is called whatever StatObject answered.
PutObject(w) ==
    /\ Running
    /\ wpc[w] = "put"
    /\ \E e \in PutObjectErrors(listing[w], srcObj[w]) :
         /\ err' = [err EXCEPT ![w] = e]
         /\ dest' = IF e THEN dest ELSE dest \cup {listing[w]}
    /\ wpc' = [wpc EXCEPT ![w] = "lock"]
    /\ UNCHANGED <<config, dest0, run, mainpc, idx, workersCh,
                   ocTotal, ocCurrent, mutex, srcObj, statRes, statKey,
                   outcome, logged, counting>>

\* Lock, were the mutex not waited for.
LockNoWait(w) ==
    /\ Running
    /\ wpc[w] = "lock"
    /\ mutex' = w
    /\ wpc' = [wpc EXCEPT ![w] = "incr"]
    /\ UNCHANGED <<config, dest, dest0, run, mainpc, idx,
                   workersCh, ocTotal, ocCurrent, locals, logged, counting>>

\* Line 143: oc.Lock().
Lock(w) ==
    /\ Running
    /\ wpc[w] = "lock"
    /\ mutex = 0
    /\ mutex' = w
    /\ wpc' = [wpc EXCEPT ![w] = "incr"]
    /\ UNCHANGED <<config, dest, dest0, run, mainpc, idx,
                   workersCh, ocTotal, ocCurrent, locals, logged, counting>>

\* Line 146: oc.increment().
Increment(w) ==
    /\ Running
    /\ wpc[w] = "incr"
    /\ ocCurrent' = increment(ocCurrent)
    /\ wpc' = [wpc EXCEPT ![w] = "report"]
    /\ UNCHANGED <<config, dest, dest0, run, mainpc, idx,
                   workersCh, ocTotal, mutex, locals, logged, counting>>

\* Report, were the return after the "skipping" line (line 155) missing: the
\* "copied" or "ERROR copying" line is printed as well.
ReportNoReturn(w) ==
    /\ Running
    /\ wpc[w] = "report"
    /\ outcome' = [outcome EXCEPT ![w] = OutcomeNoCheck(statKey[w], err[w])]
    /\ logged' = IF statKey[w] # 0
                 THEN logged \o <<<<getCurrent(ocCurrent), ocTotal>>,
                                  <<getCurrent(ocCurrent), ocTotal>>>>
                 ELSE Append(logged, <<getCurrent(ocCurrent), ocTotal>>)
    /\ wpc' = [wpc EXCEPT ![w] = "unlock"]
    /\ UNCHANGED <<config, dest, dest0, run, mainpc, idx,
                   workersCh, ocTotal, ocCurrent, mutex, srcObj, statRes,
                   statKey, err, counting>>

\* Lines 148-162: one of the three log lines, prefixed by the count.
Report(w) ==
    /\ Running
    /\ wpc[w] = "report"
    /\ outcome' = [outcome EXCEPT ![w] = Outcome(statKey[w], err[w])]
    /\ logged' = Append(logged, <<getCurrent(ocCurrent), ocTotal>>)
    /\ wpc' = [wpc EXCEPT ![w] = "unlock"]
    /\ UNCHANGED <<config, dest, dest0, run, mainpc, idx,
                   workersCh, ocTotal, ocCurrent, mutex, srcObj, statRes,
                   statKey, err, counting>>

\* Line 144: the deferred oc.Unlock(), the first deferred call to run.
Unlock(w) ==
    /\ Running
    /\ wpc[w] = "unlock"
    /\ mutex' = 0
    /\ wpc' = [wpc EXCEPT ![w] = "release"]
    /\ UNCHANGED <<config, dest, dest0, run, mainpc, idx,
                   workersCh, ocTotal, ocCurrent, locals, logged, counting>>

\* Line 131: the deferred <-ch, the last deferred call to run.
Release(w) ==
    /\ Running
    /\ wpc[w] = "release"
    /\ workersCh > 0
    /\ workersCh' = Recv(workersCh)
    /\ wpc' = [wpc EXCEPT ![w] = "finished"]
    /\ UNCHANGED <<config, dest, dest0, run, mainpc, idx,
                   ocTotal, ocCurrent, mutex, locals, logged, counting>>

Next ==
    \/ MainStart
    \/ CountNext
    \/ CountStop
    \/ CountReturn
    \/ ReporterDefault
    \/ ReporterWake
    \/ ReporterClose
    \/ Range
    \/ Acquire
    \/ Go
    \/ DrainPoll
    \/ DrainWake
    \/ \E w \in Workers : GetObject(w)
    \/ \E w \in Workers : StatObject(w)
    \/ \E w \in Workers : PutObject(w)
    \/ \E w \in Workers : Lock(w)
    \/ \E w \in Workers : Increment(w)
    \/ \E w \in Workers : Report(w)
    \/ \E w \in Workers : Unlock(w)
    \/ \E w \in Workers : Release(w)

Spec == Init /\ [][Next]_vars

----------------------------------------------------------------------------
(* A second execution of the program against the same source and           *)
(* destination: the process starts afresh, the destination keeps what the  *)
(* first execution wrote to it.                                            *)

Rerun ==
    /\ mainpc = "done"
    /\ run = 1
    /\ run' = 2
    /\ dest0' = dest
    /\ mainpc' = "start"
    /\ idx' = 0
    /\ workersCh' = 0
    /\ ocTotal' = 0
    /\ ocCurrent' = 0
    /\ mutex' = 0
    /\ wpc' = NoWorker
    /\ srcObj' = NoBool
    /\ statRes' = NoStat
    /\ statKey' = NoKey
    /\ err' = NoBool
    /\ outcome' = NoStat
    /\ logged' = <<>>
    /\ count' = 0
    /\ cidx' = 0
    /\ rpc' = "none"
    /\ stopCh' = "none"
    /\ UNCHANGED <<config, dest>>

NextRerun ==
    \/ Next
    \/ Rerun

SpecRerun == Init /\ [][NextRerun]_vars

----------------------------------------------------------------------------
(* Fairness: the Go scheduler runs every runnable goroutine, a sleep       *)
(* returns, and every storage call returns.                                *)

MainNext ==
    \/ MainStart
    \/ CountNext
    \/ CountStop
    \/ CountReturn
    \/ Range
    \/ Acquire
    \/ Go
    \/ DrainPoll
    \/ DrainWake

ReporterNext ==
    \/ ReporterDefault
    \/ ReporterWake
    \/ ReporterClose

WorkerNext(w) ==
    \/ GetObject(w)
    \/ StatObject(w)
    \/ PutObject(w)
    \/ Lock(w)
    \/ Increment(w)
    \/ Report(w)
    \/ Unlock(w)
    \/ Release(w)

\* The runs the liveness properties are about: a destination that holds
\* none or all of the objects (the copy path and the skip path; which
\* objects it holds changes no step a run can take).
FairInit ==
    /\ Init
    /\ dest \in {{}, Keys}

FairSpec ==
    /\ FairInit
    /\ [][Next]_vars
    /\ WF_vars(MainNext)
    /\ WF_vars(ReporterNext)
    /\ \A w \in Workers : WF_vars(WorkerNext(w))

----------------------------------------------------------------------------
(* Vocabulary of the properties.                                           *)

\* Positions of copyObj after PutObject has been called and has returned.
AfterPut == {"lock", "incr", "report", "unlock", "release", "finished"}
\* Positions of copyObj after its log line was printed.
AfterReport == {"unlock", "release", "finished"}
\* Positions of copyObj after oc.increment().
AfterIncrement == {"report", "unlock", "release", "finished"}

Entries == 1..Len(listing)
\* Transfers admitted (token sent, copyObj started) and not yet released.
Outstanding == {w \in Workers : wpc[w] \notin {"idle", "finished"}}
ListingFailed == \E i \in Entries : listing[i] = 0
Completed == mainpc = "done"

----------------------------------------------------------------------------
(* C1: the number of transfers that were admitted and have not released    *)
(* their token never exceeds the concurrency limit, and neither does the   *)
(* number of tokens in workersCh.                                          *)
C1_OutstandingWithinLimit ==
    /\ Cardinality(Outstanding) <= concurrency
    /\ workersCh <= concurrency

\* The gate is saturated: C transfers in flight, 1 <= C <= K, and the
\* dispatcher waits to admit one more.
C1_Witness ==
    /\ concurrency >= 1
    /\ concurrency <= Len(listing)
    /\ Cardinality(Outstanding) = concurrency
    /\ mainpc = "acquire"

(* C2: for an object the destination already held when the run started and *)
(* that StatObject reported, copyObj never calls PutObject (no payload is  *)
(* read from the source or written to the destination).                    *)
C2_SkipTransfersNothing ==
    \A w \in Entries :
        (listing[w] \in dest0 /\ statRes[w] = "present")
            => wpc[w] \notin AfterPut

(* C3: when the destination holds none of the listed objects and no        *)
(* storage call fails, then at "copy completed" every listed object was    *)
(* reported Copied, is in the destination under its key, and the count is  *)
(* the size of the listing.                                                *)
C3_NoFailure ==
    /\ ~ListingFailed
    /\ \A i \in Entries :
         srcObj[i] /\ statRes[i] # "error" /\ ~err[i]

C3_AllCopied ==
    (/\ Completed
     /\ \A i \in Entries : listing[i] \notin dest0
     /\ C3_NoFailure)
        => /\ \A i \in Entries :
                outcome[i] = "Copied" /\ listing[i] \in dest
           /\ ocCurrent = Len(listing)
           /\ Len(listing) > 0 => logged[Len(logged)][1] = Len(listing)

\* Two objects, concurrency 2, empty destination: both Copied.
C3_Witness ==
    /\ Completed
    /\ Len(listing) = 2
    /\ concurrency = 2
    /\ dest0 = {}
    /\ C3_NoFailure
    /\ \A i \in Entries : outcome[i] = "Copied"
    /\ ocCurrent = 2

(* C4: at "copy completed" oc.Current is the number of entries the listing *)
(* yielded, whatever the outcomes; and at any time it is the number of     *)
(* workers that have executed oc.increment().                              *)
C4_FinalCount ==
    /\ ocCurrent = Cardinality({w \in Workers : wpc[w] \in AfterIncrement})
    /\ Completed => (idx = Len(listing) /\ ocCurrent = Len(listing))

\* A completed run with a failure and a non-failure.
C4_Witness ==
    /\ Completed
    /\ Len(listing) = MaxK
    /\ \E i, j \in Entries :
         outcome[i] = "Failed" /\ outcome[j] \in {"Copied", "Skipped"}
    /\ ocCurrent = MaxK

(* C5: in the state after "copy completed" no token is outstanding and     *)
(* every dispatched copyObj has finished: transfer attempted, counter      *)
(* incremented, outcome logged, token released.                            *)
C5_DoneMeansDrained ==
    Completed =>
        /\ workersCh = 0
        /\ Outstanding = {}
        /\ \A i \in 1..idx :
             wpc[i] = "finished" /\ outcome[i] # "none"

C5_Witness ==
    /\ Completed
    /\ idx = MaxK
    /\ concurrency >= 1
    /\ \A i \in 1..idx : wpc[i] = "finished"

(* C6: when the listing yields an error entry, no transfer is dispatched   *)
(* for that entry and the run never reports "copy completed".              *)
C6_ListingErrorIsFatal ==
    /\ \A i \in Entries : listing[i] = 0 => wpc[i] = "idle"
    /\ ListingFailed => ~Completed

(* C7: a failed transfer is local to its object: the run is not aborted,   *)
(* a worker in its storage calls can always take its next step while the   *)
(* process runs, and at "copy completed" every listed entry, the failed    *)
(* ones included, has its own outcome, has been counted and has released   *)
(* its token.                                                              *)
C7_FailureIsLocal ==
    /\ mainpc # "fatal"
    /\ \A w \in Workers :
         (Running /\ wpc[w] \in {"get", "stat", "put"})
            => ENABLED (GetObject(w) \/ StatObject(w) \/ PutObject(w))
    /\ Completed =>
         \A i \in Entries :
             /\ wpc[i] = "finished"
             /\ outcome[i] \in {"Skipped", "Copied", "Failed"}
             /\ ocCurrent = Len(listing)

\* The first object failed and a later one was copied all the same.
C7_Witness ==
    /\ Completed
    /\ \E i, j \in Entries :
         /\ i < j
         /\ listing[i] # 0
         /\ outcome[i] = "Failed"
         /\ outcome[j] = "Copied"
    /\ ocCurrent = Len(listing)

(* C8: with a concurrency limit of at least 1 and fair scheduling, every   *)
(* run reaches "copy completed".                                           *)
C8_EventuallyDone ==
    (concurrency >= 1) => <>Completed

\* A completed run in which every transfer failed.
C8_Witness ==
    /\ Completed
    /\ concurrency >= 1
    /\ Len(listing) = MaxK
    /\ ~ListingFailed
    /\ \A i \in Entries : outcome[i] = "Failed"

(* C9 as stated: every outcome of a second run is Skipped.                 *)
C9_SecondRunAllSkipped ==
    run = 2 =>
        \A w \in Workers : outcome[w] \in {"none", "Skipped"}

(* C9, amended: every object whose transfer in the first run ended Copied  *)
(* or Skipped is in the destination when the first run completes, and in   *)
(* the second run every object that the destination holds at its start and *)
(* whose destination probe does not fail ends Skipped.                     *)
C9_SecondRunSkipsPresent ==
    /\ (run = 1 /\ Completed) =>
          \A i \in Entries :
              outcome[i] \in {"Copied", "Skipped"} => listing[i] \in dest
    /\ run = 2 =>
          \A w \in Workers :
              (/\ wpc[w] \in AfterReport
               /\ listing[w] \in dest0
               /\ statRes[w] # "error")
                  => outcome[w] = "Skipped"

\* A second run of a full listing in which every object was skipped.
C9_Witness ==
    /\ run = 2
    /\ Completed
    /\ Len(listing) = MaxK
    /\ \A i \in Entries : outcome[i] = "Skipped"

(* C10: a probe that answers not-found or fails counts as "object does not *)
(* exist": PutObject was called and the outcome is Copied or Failed; the   *)
(* outcome is Skipped only after a probe that reported the key; and the    *)
(* run is never aborted.                                                   *)
C10_ProbeErrorIsAbsent ==
    /\ mainpc # "fatal"
    /\ \A w \in Workers :
         wpc[w] \in AfterReport =>
            /\ statRes[w] \in {"notfound", "error"}
                   => outcome[w] \in {"Copied", "Failed"}
            /\ outcome[w] = "Skipped"
                   => (statRes[w] = "present" /\ listing[w] \in dest)

\* A probe failed for an object the destination holds: it was copied again.
C10_Witness ==
    \E w \in Workers :
        /\ wpc[w] = "finished"
        /\ listing[w] \in dest0
        /\ statRes[w] = "error"
        /\ outcome[w] = "Copied"

----------------------------------------------------------------------------
(* Vocabulary of the properties on the gate, the counter and the log.      *)

\* Tokens the dispatcher has sent on workersCh so far.
Sent == IF mainpc = "acquire" THEN idx - 1 ELSE idx
\* Tokens the workers have received from workersCh so far.
Received == Cardinality({w \in Workers : wpc[w] = "finished"})
\* Objects for which copyObj has been started.
Dispatched == {w \in Workers : wpc[w] # "idle"}
\* Between oc.Lock() and oc.Unlock().
InSection(w) == wpc[w] \in {"incr", "report", "unlock"}

(* C11: the k-th outcome line carries the running count k, and the total   *)
(* K of the listing when progress estimation is enabled (no total, -1,     *)
(* when it is disabled); a completed run has printed K lines, so each of   *)
(* 1..K was reported once, in increasing order.                            *)
C11_ProgressLines ==
    /\ \A k \in 1..Len(logged) :
         logged[k] = <<k, IF showProgress THEN Len(listing) ELSE -1>>
    /\ Completed => Len(logged) = Len(listing)

\* Progress enabled, a full listing: the last line printed was K/K.
C11_Witness ==
    /\ Completed
    /\ showProgress
    /\ ~ListingFailed
    /\ Len(listing) = MaxK
    /\ Len(logged) = MaxK
    /\ logged[MaxK] = <<MaxK, MaxK>>

(* C12: the workers never receive more tokens than the dispatcher sent,    *)
(* the channel holds exactly the tokens sent and not yet received, a       *)
(* worker has received only after its outcome was logged and the mutex     *)
(* given back, and in a completed run every token sent was received, one   *)
(* per listed entry, whatever the outcome.                                 *)
C12_ReleaseOnce ==
    /\ Received <= Sent
    /\ workersCh = Sent - Received
    /\ \A w \in Workers :
         wpc[w] = "finished" =>
            /\ outcome[w] \in {"Skipped", "Copied", "Failed"}
            /\ mutex # w
    /\ Completed => (Received = Sent /\ Sent = Len(listing))

\* A skipped and a failed transfer have both released.
C12_Witness ==
    /\ \E i, j \in Workers :
         /\ wpc[i] = "finished" /\ outcome[i] = "Skipped"
         /\ wpc[j] = "finished" /\ outcome[j] = "Failed"
    /\ workersCh = 0

(* C13: at most one worker is between oc.Lock() and oc.Unlock(), that      *)
(* worker is the holder of the mutex, and oc.Current changes only in a     *)
(* step of the holder (its oc.increment()).                                *)
C13_SectionInv ==
    /\ Cardinality({w \in Workers : InSection(w)}) <= 1
    /\ \A w \in Workers : InSection(w) <=> mutex = w

C13_MutualExclusion ==
    /\ []C13_SectionInv
    /\ [][ocCurrent' # ocCurrent =>
             (mutex \in Workers /\ wpc[mutex] = "incr"
              /\ wpc'[mutex] = "report")]_vars

\* One worker is printing its line under the mutex, another waits for it.
C13_Witness ==
    \E i, j \in Workers :
        /\ wpc[i] = "report"
        /\ mutex = i
        /\ wpc[j] = "lock"

(* C14: copyObj is started for the entries in the order of the listing,    *)
(* once each: the started workers are always the first entries of the      *)
(* listing, a worker is started only from the idle position, for the       *)
(* entry main has just received and after a token was sent for it, and     *)
(* main never goes back in the listing.                                    *)
C14_OrderInv ==
    /\ idx <= Len(listing)
    /\ Dispatched = 1..(IF mainpc \in {"acquire", "go"} THEN idx - 1 ELSE idx)
    /\ Sent = Cardinality(Dispatched) + (IF mainpc = "go" THEN 1 ELSE 0)

C14_SinglePass ==
    /\ []C14_OrderInv
    /\ [][/\ idx' \in {idx, idx + 1}
          /\ \A w \in Workers :
               (wpc[w] # "get" /\ wpc'[w] = "get") =>
                   /\ wpc[w] = "idle"
                   /\ w = idx
                   /\ mainpc = "go"
                   /\ workersCh >= 1]_vars

\* Completion order is free: the second entry has finished, the first has
\* not.
C14_Witness ==
    /\ Len(listing) >= 2
    /\ wpc[2] = "finished"
    /\ wpc[1] \notin {"idle", "finished"}

(* C15: from the start of the dispatch-phase listing on, oc.Total is -1    *)
(* when progress estimation is disabled and otherwise the number of        *)
(* entries the whole count pass yielded; the count pass runs only with     *)
(* progress estimation and no transfer is dispatched before it returned.   *)
C15_CountingPcs == {"start", "count", "countStop", "countRet"}

C15_TotalFixed ==
    /\ mainpc \notin C15_CountingPcs =>
         ocTotal = (IF showProgress THEN count ELSE -1)
    /\ (showProgress /\ mainpc \notin {"start", "count"}) =>
         (count = Len(listing) /\ cidx = Len(listing))
    /\ ~showProgress =>
         /\ mainpc \notin {"count", "countStop", "countRet"}
         /\ count = 0 /\ cidx = 0 /\ rpc = "none"
    /\ mainpc \in C15_CountingPcs =>
         (idx = 0 /\ Dispatched = {} /\ ocTotal = 0)

\* Transfers are under way with the total the count pass found.
C15_Witness ==
    /\ showProgress
    /\ ocTotal = MaxK
    /\ ocCurrent >= 1
    /\ \E w \in Workers : wpc[w] \in {"get", "stat", "put"}

(* C16: when a worker that reported Skipped has released its token, the    *)
(* source object it opened is closed.                                      *)
C16_SkippedStreamClosed ==
    \A w \in Workers :
        (wpc[w] = "finished" /\ outcome[w] = "Skipped")
            => ~StreamOpen(srcObj[w])

(* C17: every entry for which copyObj was started gets one outcome line:   *)
(* the lines printed are as many as the workers past their report, the     *)
(* outcome is Skipped, Copied or Failed as the probe and the put results   *)
(* decide, a completed run has printed one line per entry, and an outcome  *)
(* once reported never changes.                                            *)
C17_OneLineEach ==
    /\ Len(logged) = Cardinality({w \in Workers : wpc[w] \in AfterReport})
    /\ \A w \in Workers :
         IF wpc[w] \in AfterReport
         THEN outcome[w] = (IF statRes[w] = "present" THEN "Skipped"
                            ELSE IF err[w] THEN "Failed" ELSE "Copied")
         ELSE outcome[w] = "none"
    /\ Completed => Len(logged) = Len(listing)

C17_OneOutcome ==
    /\ []C17_OneLineEach
    /\ [][\A w \in Workers :
             outcome[w] # "none" => outcome'[w] = outcome[w]]_vars

\* The put failed for an object the probe had found: one line, Skipped.
C17_Witness ==
    /\ Completed
    /\ Len(logged) = MaxK
    /\ \E w \in Workers :
         statRes[w] = "present" /\ err[w] /\ outcome[w] = "Skipped"

(* C18: 0 <= Current <= D <= K and D - Current <= C, D being the number of *)
(* objects dispatched; every object dispatched and not yet counted still   *)
(* has its token in workersCh, and a worker about to release holds the     *)
(* mutex no more.                                                          *)
C18_CounterBehindDispatch ==
    /\ 0 <= ocCurrent
    /\ ocCurrent <= Cardinality(Dispatched)
    /\ Cardinality(Dispatched) <= Len(listing)
    /\ Cardinality(Dispatched) - ocCurrent <= concurrency
    /\ Cardinality(Dispatched) - ocCurrent <= workersCh
    /\ \A w \in Workers : wpc[w] \in {"release", "finished"} => mutex # w

\* Capacity 1: the second object is in flight, not yet counted, and fills
\* the gate; the first one was counted.
C18_Witness ==
    /\ concurrency = 1
    /\ Cardinality(Dispatched) = 2
    /\ ocCurrent = 1
    /\ wpc[2] \in {"get", "stat", "put", "lock"}

(* C19: countDirObjects returns once its listing is exhausted, with the    *)
(* number of entries the listing yielded; when its send on stopCh has      *)
(* completed the report goroutine has received and loops no more; stopCh   *)
(* is closed by that goroutine only, after the send, and stays closed;     *)
(* and the goroutine then ends unless the process ends first.              *)
C19_StopInv ==
    /\ (showProgress /\ mainpc \notin {"start", "count", "countStop"}) =>
         (count = Len(listing) /\ rpc \in {"close", "done"})
    /\ rpc \in {"close", "done"} =>
         mainpc \notin {"start", "count", "countStop"}
    /\ stopCh = "closed" <=> rpc = "done"

C19_CountReturns ==
    /\ []C19_StopInv
    /\ [][stopCh # "closed" \/ stopCh' = "closed"]_vars
    /\ showProgress => <>(mainpc = "range" /\ ocTotal = Len(listing))
    /\ showProgress => <>(rpc = "done" \/ Completed)

\* The count pass is over, stopCh is closed, the total is the listing size.
C19_Witness ==
    /\ showProgress
    /\ stopCh = "closed"
    /\ rpc = "done"
    /\ count = MaxK
    /\ ocTotal = MaxK

(* C20: with a concurrency limit of 0 and a listing that is not empty, the *)
(* dispatcher stays at its first send for ever: no transfer is started,    *)
(* the counter stays 0, "copy completed" is never logged.  With an empty   *)
(* listing main never waits on the gate or in the drain loop and the run   *)
(* completes, for every limit.                                             *)
C20_BlockedInv ==
    /\ (concurrency = 0 /\ Len(listing) > 0) =>
         /\ Dispatched = {}
         /\ ocCurrent = 0
         /\ workersCh = 0
         /\ idx <= 1
         /\ ~Completed
    /\ Len(listing) = 0 => mainpc \notin {"acquire", "go", "sleep"}

C20_ZeroCapacity ==
    /\ []C20_BlockedInv
    /\ (concurrency = 0 /\ Len(listing) > 0) => <>[](mainpc = "acquire")
    /\ (Len(listing) = 0) => <>Completed

\* The dispatcher is at its first send on a channel of capacity 0.
C20_Witness ==
    /\ concurrency = 0
    /\ Len(listing) = MaxK
    /\ mainpc = "acquire"
    /\ idx = 1

====
